---- MODULE Spec2Model ----
(***************************************************************************)
(* Conway's Game of Life on a toroidal grid (gol.go).                      *)
(*                                                                         *)
(* The heap holds Field objects (fields) and Life objects (lives); a       *)
(* pointer is an index into the heap.  Every goroutine has one call frame  *)
(* (frames) holding the locals of the function it runs and the result of   *)
(* its last completed call (ret).  The loops of NewLife, Step and String   *)
(* advance one iteration per action.  hist and out are history variables:  *)
(* hist[l] records how Life l was created and how many Steps it has        *)
(* completed, out[l] the text String last returned for its current         *)
(* generation.  Under the specification of main, frames has one more key,  *)
(* for the frame of main itself below the frame of the call it has made.   *)
(*                                                                         *)
(* Go's int is 64 bits wide; the coordinates of the model stay far from    *)
(* the ends of that range, so the additions of Alive are exact here.       *)
(***************************************************************************)
EXTENDS Integers, Sequences, FiniteSets

VARIABLES fields, lives, frames, ret, hist, out

vars == <<fields, lives, frames, ret, hist, out>>

(***************************************************************************)
(* Bounds of the model.                                                    *)
(***************************************************************************)
\* Field specification: largest width, height and number of cells.
FieldMaxW == 3
FieldMaxH == 3
FieldMaxCells == 9
\* How far outside the field the coordinates passed to Alive may lie.
MaxOut == 2
\* Life specification: largest width, height and number of cells.
MaxW == 4
MaxH == 4
MaxCells == 16
\* Largest number of Steps taken on one Life.
MaxSteps == 3
\* Two Lives side by side: largest width, height and number of cells of either.
PairMaxW == 2
PairMaxH == 2
PairMaxCells == 4
\* A Life whose calls are followed to their end: largest width, height and
\* number of cells.
LiveMaxW == 3
LiveMaxH == 3
LiveMaxCells == 9
\* A Life whose fields are also asked directly: largest width, height and
\* number of cells.
QueryMaxW == 3
QueryMaxH == 3
QueryMaxCells == 6
\* The Life of main (40 x 15 in the program): largest width, height and cells.
MainMaxW == 2
MainMaxH == 2
MainMaxCells == 4
\* for i := 0; i < 1000; i++: the number of iterations of main's loop.
Iterations == 1000
\* A small Life whose cells the package sets: largest width, height and cells.
SmallMaxW == 2
SmallMaxH == 2
SmallMaxCells == 4
\* A Life used by two goroutines: largest width, height and number of cells.
ConcMaxW == 3
ConcMaxH == 3
ConcMaxCells == 9
\* Largest width and height of the grid holding a block (4 and up).
BlockMaxW == 5
BlockMaxH == 5
\* Largest width and height of the grid holding a blinker (5 and up).
BlinkerMaxW == 6
BlinkerMaxH == 6

FieldDims == {d \in (1..FieldMaxW) \X (1..FieldMaxH) : d[1] * d[2] <= FieldMaxCells}
Dims == {d \in (1..MaxW) \X (1..MaxH) : d[1] * d[2] <= MaxCells}
PairDims == {d \in (1..PairMaxW) \X (1..PairMaxH) : d[1] * d[2] <= PairMaxCells}
LiveDims == {d \in (1..LiveMaxW) \X (1..LiveMaxH) : d[1] * d[2] <= LiveMaxCells}
QueryDims == {d \in (1..QueryMaxW) \X (1..QueryMaxH) : d[1] * d[2] <= QueryMaxCells}
MainDims == {d \in (1..MainMaxW) \X (1..MainMaxH) : d[1] * d[2] <= MainMaxCells}
SmallDims == {d \in (1..SmallMaxW) \X (1..SmallMaxH) : d[1] * d[2] <= SmallMaxCells}
ConcDims == {d \in (1..ConcMaxW) \X (1..ConcMaxH) : d[1] * d[2] <= ConcMaxCells}
BlockDims == (4..BlockMaxW) \X (4..BlockMaxH)
BlinkerDims == (5..BlinkerMaxW) \X (5..BlinkerMaxH)

\* The goroutines: the one of main, and one more for a caller that uses one.
Main == "main"
Other == "other"
Threads == {"main", "other"}

(***************************************************************************)
(* Field                                                                   *)
(***************************************************************************)
\* make([][]bool, h) with every row make([]bool, width): all cells false.
NewField(width, h) ==
    [s |-> [y \in 0..(h-1) |-> [x \in 0..(width-1) |-> FALSE]],
     width |-> width, h |-> h]

\* f.s[y][x] = b; the caller passes coordinates that index the slices.
Set(f, x, y, b) == [f EXCEPT !.s[y][x] = b]

\* Go's % truncates toward zero: the result has the sign of the dividend.
GoRem(n, d) == IF n >= 0 THEN n % d ELSE -((-n) % d)

\* An index expression panics when the index is outside the slice.
Value(b) == [panic |-> FALSE, val |-> b]
Panic == [panic |-> TRUE, val |-> FALSE]

\* Alive without the addition of the dimension before the remainder.
AliveNoShift(f, x, y) ==
    LET x1 == GoRem(x, f.width)
        y1 == GoRem(y, f.h)
    IN  IF y1 \in 0..(f.h-1) /\ x1 \in 0..(f.width-1)
        THEN Value(f.s[y1][x1])
        ELSE Panic

Alive(f, x, y) ==
    LET x1 == GoRem(x + f.width, f.width)
        y1 == GoRem(y + f.h, f.h)
    IN  IF y1 \in 0..(f.h-1) /\ x1 \in 0..(f.width-1)
        THEN Value(f.s[y1][x1])
        ELSE Panic

\* The loops of Next without the test that skips the cell itself.
RECURSIVE NextCountSelf(_, _, _, _, _, _)
NextCountSelf(f, x, y, i, j, alive) ==
    IF i > 1 THEN [panic |-> FALSE, val |-> alive]
    ELSE IF j > 1 THEN NextCountSelf(f, x, y, i + 1, -1, alive)
    ELSE LET r == Alive(f, x + i, y + j)
         IN  IF r.panic THEN [panic |-> TRUE, val |-> 0]
             ELSE NextCountSelf(f, x, y, i, j + 1,
                                IF r.val THEN alive + 1 ELSE alive)

\* A count of the distinct live cells around (x, y) instead of one per offset.
NextCountDistinct(f, x, y, i, j, alive) ==
    [panic |-> FALSE,
     val |-> Cardinality({c \in (0..(f.width - 1)) \X (0..(f.h - 1)) :
                 /\ f.s[c[2]][c[1]]
                 /\ \E di \in {-1, 0, 1}, dj \in {-1, 0, 1} :
                        /\ (dj # 0 \/ di # 0)
                        /\ c[1] = (x + di) % f.width
                        /\ c[2] = (y + dj) % f.h})]

\* The two nested loops of Next: i is the outer and j the inner variable,
\* alive the count so far.  A panic of Alive ends the call.
RECURSIVE NextCount(_, _, _, _, _, _)
NextCount(f, x, y, i, j, alive) ==
    IF i > 1 THEN [panic |-> FALSE, val |-> alive]
    ELSE IF j > 1 THEN NextCount(f, x, y, i + 1, -1, alive)
    ELSE IF j # 0 \/ i # 0
         THEN LET r == Alive(f, x + i, y + j)
              IN  IF r.panic THEN [panic |-> TRUE, val |-> 0]
                  ELSE NextCount(f, x, y, i, j + 1,
                                 IF r.val THEN alive + 1 ELSE alive)
         ELSE NextCount(f, x, y, i, j + 1, alive)

\* Next keeping a dead cell's state on two neighbours as alive.
NextTwoBirth(f, x, y) ==
    LET c == NextCount(f, x, y, -1, -1, 0)
    IN  IF c.panic THEN Panic
        ELSE Value(c.val = 3 \/ c.val = 2)

\* Next without survival: alive on exactly 3 neighbours only.
NextNoSurvive(f, x, y) ==
    LET c == NextCount(f, x, y, -1, -1, 0)
    IN  IF c.panic THEN Panic
        ELSE Value(c.val = 3)

Next(f, x, y) ==
    LET c == NextCount(f, x, y, -1, -1, 0)
    IN  IF c.panic THEN Panic
        ELSE IF c.val = 3 THEN Value(TRUE)
        ELSE IF c.val = 2 THEN Alive(f, x, y)
        ELSE Value(FALSE)

(***************************************************************************)
(* Frames                                                                  *)
(***************************************************************************)
Idle == [fn |-> "idle"]
Crashed == [fn |-> "panic"]
NoRet == [fn |-> "none"]

\* The program is single-threaded: a call starts when no call is running.
Quiet == \A t \in Threads : frames[t] = Idle

InitHeap ==
    /\ fields = << >>
    /\ lives = << >>
    /\ frames = [t \in Threads |-> Idle]
    /\ ret = [t \in Threads |-> NoRet]
    /\ hist = << >>
    /\ out = << >>

(***************************************************************************)
(* Calls on a Field made directly by a caller of the package: the caller   *)
(* makes a field, fills it with Set and then asks one question of it.      *)
(***************************************************************************)
Building(t) == ret[t].fn \in {"NewField", "Set"}

NewFieldCall(t, width, h) ==
    /\ Quiet
    /\ fields = << >>
    /\ fields' = Append(fields, NewField(width, h))
    /\ ret' = [ret EXCEPT ![t] = [fn |-> "NewField", f |-> Len(fields) + 1]]
    /\ UNCHANGED <<lives, frames, hist, out>>

SetCall(t, f, x, y, b) ==
    /\ Quiet
    /\ x \in 0..(fields[f].width - 1)
    /\ y \in 0..(fields[f].h - 1)
    /\ fields' = [fields EXCEPT ![f] = Set(fields[f], x, y, b)]
    /\ ret' = [ret EXCEPT ![t] = [fn |-> "Set"]]
    /\ UNCHANGED <<lives, frames, hist, out>>

AliveCall(t, f, x, y) ==
    /\ Quiet
    /\ LET r == Alive(fields[f], x, y)
       IN  /\ ret' = [ret EXCEPT ![t] = [fn |-> "Alive", f |-> f, x |-> x, y |-> y,
                                         panic |-> r.panic, val |-> r.val]]
           /\ frames' = [frames EXCEPT ![t] = IF r.panic THEN Crashed ELSE Idle]
    /\ UNCHANGED <<fields, lives, hist, out>>

\* Next storing the state it computes into the cell.
NextCallStoring(t, f, x, y) ==
    /\ Quiet
    /\ x \in 0..(fields[f].width - 1)
    /\ y \in 0..(fields[f].h - 1)
    /\ LET r == Next(fields[f], x, y)
       IN  /\ ret' = [ret EXCEPT ![t] = [fn |-> "Next", f |-> f, x |-> x, y |-> y,
                                         panic |-> r.panic, val |-> r.val]]
           /\ frames' = [frames EXCEPT ![t] = IF r.panic THEN Crashed ELSE Idle]
           /\ fields' = [fields EXCEPT ![f] = Set(@, x, y, r.val)]
    /\ UNCHANGED <<lives, hist, out>>

NextCall(t, f, x, y) ==
    /\ Quiet
    /\ x \in 0..(fields[f].width - 1)
    /\ y \in 0..(fields[f].h - 1)
    /\ LET r == Next(fields[f], x, y)
       IN  /\ ret' = [ret EXCEPT ![t] = [fn |-> "Next", f |-> f, x |-> x, y |-> y,
                                         panic |-> r.panic, val |-> r.val]]
           /\ frames' = [frames EXCEPT ![t] = IF r.panic THEN Crashed ELSE Idle]
    /\ UNCHANGED <<fields, lives, hist, out>>

\* Coordinates a caller passes to Alive: up to MaxOut cells beyond one full
\* field width (height) on either side of the field.
AliveXs(f) == (0 - fields[f].width - MaxOut)..(2 * fields[f].width + MaxOut - 1)
AliveYs(f) == (0 - fields[f].h - MaxOut)..(2 * fields[f].h + MaxOut - 1)

FieldNewField == \E d \in FieldDims : NewFieldCall(Main, d[1], d[2])
FieldSet ==
    \E f \in DOMAIN fields :
        /\ Building(Main)
        /\ \E x \in 0..(fields[f].width - 1), y \in 0..(fields[f].h - 1), b \in BOOLEAN :
            SetCall(Main, f, x, y, b)
FieldAlive ==
    \E f \in DOMAIN fields :
        /\ Building(Main)
        /\ \E x \in AliveXs(f), y \in AliveYs(f) : AliveCall(Main, f, x, y)
FieldNext ==
    \E f \in DOMAIN fields :
        /\ Building(Main)
        /\ \E x \in 0..(fields[f].width - 1), y \in 0..(fields[f].h - 1) :
            NextCall(Main, f, x, y)

NextOfField == FieldNewField \/ FieldSet \/ FieldAlive \/ FieldNext

SpecField == InitHeap /\ [][NextOfField]_vars

(***************************************************************************)
(* Life                                                                    *)
(***************************************************************************)
\* A random source that also returns n.
RandIntnInclusive(n) == 0..n

\* rand.Intn(n) returns any integer of [0, n).
RandIntn(n) == 0..(n - 1)

\* Whether f.s[y][x] indexes the slices of f.
InField(f, x, y) == y \in DOMAIN f.s /\ x \in DOMAIN f.s[y]

\* The loop of NewLife running one iteration more: i <= width*h/4.
NewLifeMoreInclusive(fr) == fr.i <= (fr.width * fr.h) \div 4

\* The condition of NewLife's loop: i < (width * h / 4).
NewLifeMore(fr) == fr.i < (fr.width * fr.h) \div 4

\* NewLife: a := NewField(width, h), then the loop starts with i = 0.
NewLifeCall(t, width, h, maxLives) ==
    /\ Quiet
    /\ Len(lives) < maxLives
    /\ fields' = Append(fields, NewField(width, h))
    /\ frames' = [frames EXCEPT ![t] =
                    [fn |-> "NewLife", width |-> width, h |-> h,
                     a |-> Len(fields) + 1, i |-> 0, draws |-> {}]]
    /\ ret' = [ret EXCEPT ![t] = NoRet]
    /\ UNCHANGED <<lives, hist, out>>

\* One iteration of the loop of NewLife: a.Set(rand.Intn(width), rand.Intn(h), true).
NewLifePlace(t) ==
    LET fr == frames[t] IN
    /\ fr.fn = "NewLife"
    /\ NewLifeMore(fr)
    /\ \E x \in RandIntn(fr.width), y \in RandIntn(fr.h) :
        IF InField(fields[fr.a], x, y)
        THEN /\ fields' = [fields EXCEPT ![fr.a] = Set(@, x, y, TRUE)]
             /\ frames' = [frames EXCEPT ![t] =
                             [fr EXCEPT !.i = fr.i + 1,
                                        !.draws = fr.draws \cup {<<x, y>>}]]
        ELSE /\ frames' = [frames EXCEPT ![t] = Crashed]
             /\ UNCHANGED fields
    /\ UNCHANGED <<lives, ret, hist, out>>

\* The loop of NewLife has ended: return &Life{a: a, b: NewField(width, h), ...}.
NewLifeReturn(t) ==
    LET fr == frames[t]
        b == Len(fields) + 1
        l == Len(lives) + 1
    IN
    /\ fr.fn = "NewLife"
    /\ ~NewLifeMore(fr)
    /\ fields' = Append(fields, NewField(fr.width, fr.h))
    /\ lives' = Append(lives, [a |-> fr.a, b |-> b, width |-> fr.width, h |-> fr.h])
    /\ frames' = [frames EXCEPT ![t] = Idle]
    /\ ret' = [ret EXCEPT ![t] =
                 [fn |-> "NewLife", grid |-> l, width |-> fr.width, h |-> fr.h,
                  placed |-> fr.i, draws |-> fr.draws]]
    /\ hist' = Append(hist, [steps |-> 0, width |-> fr.width, h |-> fr.h,
                             a |-> fr.a, b |-> b])
    /\ out' = Append(out, << >>)

\* Step is called on Life l: the sweep starts at y = 0, x = 0.  pre records
\* the cells of the current field at the call.
StepCall(t, l) ==
    /\ Quiet
    /\ hist[l].steps < MaxSteps
    /\ frames' = [frames EXCEPT ![t] =
                    [fn |-> "Step", grid |-> l, x |-> 0, y |-> 0,
                     pre |-> fields[lives[l].a].s, writes |-> 0]]
    /\ ret' = [ret EXCEPT ![t] = NoRet]
    /\ UNCHANGED <<fields, lives, hist, out>>

\* The loop variables after the body with the row after the next one begun
\* at the end of a row.
AfterCellSkipRow(fr, width) ==
    IF fr.x + 1 < width
    THEN [fr EXCEPT !.x = fr.x + 1]
    ELSE [fr EXCEPT !.x = 0, !.y = fr.y + 2]

\* The loop variables after the body at (x, y); every field is at least one
\* cell wide, so a row ends right after its last cell.
AfterCell(fr, width) ==
    IF fr.x + 1 < width
    THEN [fr EXCEPT !.x = fr.x + 1]
    ELSE [fr EXCEPT !.x = 0, !.y = fr.y + 1]

\* The body of Step's loops with the cell computed from the field it writes.
\* A sweep done in place: grid.a.Set(x, y, grid.a.Next(x, y)).
StepCellInPlace(t) ==
    LET fr == frames[t]
        grid == lives[fr.grid]
    IN
    /\ fr.fn = "Step"
    /\ fr.y < grid.h /\ fr.x < grid.width
    /\ LET r == Next(fields[grid.a], fr.x, fr.y)
       IN  IF ~r.panic /\ InField(fields[grid.a], fr.x, fr.y)
           THEN /\ fields' = [fields EXCEPT ![grid.a] = Set(@, fr.x, fr.y, r.val)]
                /\ frames' = [frames EXCEPT ![t] =
                                AfterCell([fr EXCEPT !.writes = fr.writes + 1], grid.width)]
           ELSE /\ frames' = [frames EXCEPT ![t] = Crashed]
                /\ UNCHANGED fields
    /\ UNCHANGED <<lives, ret, hist, out>>

\* A sweep that reads the scratch field: grid.b.Set(x, y, grid.b.Next(x, y)).

StepCellOnScratch(t) ==
    LET fr == frames[t]
        grid == lives[fr.grid]
    IN
    /\ fr.fn = "Step"
    /\ fr.y < grid.h /\ fr.x < grid.width
    /\ LET r == Next(fields[grid.b], fr.x, fr.y)
       IN  IF ~r.panic /\ InField(fields[grid.b], fr.x, fr.y)
           THEN /\ fields' = [fields EXCEPT ![grid.b] = Set(@, fr.x, fr.y, r.val)]
                /\ frames' = [frames EXCEPT ![t] =
                                AfterCell([fr EXCEPT !.writes = fr.writes + 1], grid.width)]
           ELSE /\ frames' = [frames EXCEPT ![t] = Crashed]
                /\ UNCHANGED fields
    /\ UNCHANGED <<lives, ret, hist, out>>

\* The body of Step's loops: grid.b.Set(x, y, grid.a.Next(x, y)).
StepCell(t) ==
    LET fr == frames[t]
        grid == lives[fr.grid]
    IN
    /\ fr.fn = "Step"
    /\ fr.y < grid.h /\ fr.x < grid.width
    /\ LET r == Next(fields[grid.a], fr.x, fr.y)
       IN  IF ~r.panic /\ InField(fields[grid.b], fr.x, fr.y)
           THEN /\ fields' = [fields EXCEPT ![grid.b] = Set(@, fr.x, fr.y, r.val)]
                /\ frames' = [frames EXCEPT ![t] =
                                AfterCell([fr EXCEPT !.writes = fr.writes + 1], grid.width)]
           ELSE /\ frames' = [frames EXCEPT ![t] = Crashed]
                /\ UNCHANGED fields
    /\ UNCHANGED <<lives, ret, hist, out>>

\* A swap written as two assignments: grid.a = grid.b; grid.b = grid.a.
SwapSequential(grid) == [grid EXCEPT !.a = grid.b, !.b = grid.b]

\* Step without the exchange of the fields.
SwapNone(grid) == grid

\* grid.a, grid.b = grid.b, grid.a
Swap(grid) == [grid EXCEPT !.a = grid.b, !.b = grid.a]

\* The sweep has ended: swap the fields and return.
StepSwap(t) ==
    LET fr == frames[t]
        l == fr.grid
    IN
    /\ fr.fn = "Step"
    /\ ~(fr.y < lives[l].h)
    /\ lives' = [lives EXCEPT ![l] = Swap(@)]
    /\ frames' = [frames EXCEPT ![t] = Idle]
    /\ ret' = [ret EXCEPT ![t] =
                 [fn |-> "Step", grid |-> l, pre |-> fr.pre, writes |-> fr.writes]]
    /\ hist' = [hist EXCEPT ![l].steps = @ + 1]
    /\ out' = [out EXCEPT ![l] = << >>]
    /\ UNCHANGED fields

\* The bytes String writes.
Star == "*"
Blank == " "
Newline == "\n"

\* String is called on Life l: the buffer is empty, the loops start at 0, 0.
StringCall(t, l) ==
    /\ Quiet
    /\ frames' = [frames EXCEPT ![t] =
                    [fn |-> "String", grid |-> l, x |-> 0, y |-> 0, buf |-> << >>]]
    /\ ret' = [ret EXCEPT ![t] = NoRet]
    /\ out' = [out EXCEPT ![l] = << >>]
    /\ UNCHANGED <<fields, lives, hist>>

\* Glyph with the two bytes exchanged.
GlyphInverted(alive) == IF alive THEN Blank ELSE Star

\* The byte for a cell: '*' if alive, ' ' otherwise.
Glyph(alive) == IF alive THEN Star ELSE Blank

\* The body of String's inner loop reading the scratch field grid.b.
StringCellOfScratch(t) ==
    LET fr == frames[t]
        grid == lives[fr.grid]
    IN
    /\ fr.fn = "String"
    /\ fr.y < grid.h /\ fr.x < grid.width
    /\ LET r == Alive(fields[grid.b], fr.x, fr.y)
           b == Append(fr.buf, Glyph(r.val))
       IN  frames' = [frames EXCEPT ![t] =
                        IF r.panic THEN Crashed
                        ELSE AfterCell([fr EXCEPT !.buf =
                                 IF fr.x + 1 < grid.width THEN b ELSE Append(b, Newline)],
                               grid.width)]
    /\ UNCHANGED <<fields, lives, ret, hist, out>>

\* The body of String's inner loop, and the line terminator written after
\* the last cell of a row.
StringCell(t) ==
    LET fr == frames[t]
        grid == lives[fr.grid]
    IN
    /\ fr.fn = "String"
    /\ fr.y < grid.h /\ fr.x < grid.width
    /\ LET r == Alive(fields[grid.a], fr.x, fr.y)
           b == Append(fr.buf, Glyph(r.val))
       IN  frames' = [frames EXCEPT ![t] =
                        IF r.panic THEN Crashed
                        ELSE AfterCell([fr EXCEPT !.buf =
                                 IF fr.x + 1 < grid.width THEN b ELSE Append(b, Newline)],
                               grid.width)]
    /\ UNCHANGED <<fields, lives, ret, hist, out>>

\* The loops of String have ended: return buf.String().
StringReturn(t) ==
    LET fr == frames[t]
        l == fr.grid
    IN
    /\ fr.fn = "String"
    /\ ~(fr.y < lives[l].h)
    /\ frames' = [frames EXCEPT ![t] = Idle]
    /\ ret' = [ret EXCEPT ![t] = [fn |-> "String", grid |-> l, val |-> fr.buf]]
    /\ out' = [out EXCEPT ![l] = fr.buf]
    /\ UNCHANGED <<fields, lives, hist>>

(***************************************************************************)
(* One Life made by NewLife, then any sequence of Step and String.         *)
(***************************************************************************)
LifeNew == \E d \in Dims : NewLifeCall(Main, d[1], d[2], 1)
LifePlace == NewLifePlace(Main)
LifeMade == NewLifeReturn(Main)
LifeStep == \E l \in DOMAIN lives : StepCall(Main, l)
LifeStepCell == StepCell(Main)
LifeStepSwap == StepSwap(Main)
LifeString == \E l \in DOMAIN lives : StringCall(Main, l)
LifeStringCell == StringCell(Main)
LifeStringReturn == StringReturn(Main)

\* Step and String on the Lives there are.
NextOfMade ==
    \/ LifeStep \/ LifeStepCell \/ LifeStepSwap
    \/ LifeString \/ LifeStringCell \/ LifeStringReturn

NextOfLife == LifeNew \/ LifePlace \/ LifeMade \/ NextOfMade

Spec == InitHeap /\ [][NextOfLife]_vars

\* A goroutine that is inside Step keeps running: the body of the loops and
\* the swap are taken when they can be.
LiveNew == \E d \in LiveDims : NewLifeCall(Main, d[1], d[2], 1)

NextOfLive == LiveNew \/ LifePlace \/ LifeMade \/ NextOfMade

SpecLive ==
    /\ InitHeap
    /\ [][NextOfLive]_vars
    /\ WF_vars(LifeStepCell)
    /\ WF_vars(LifeStepSwap)

(***************************************************************************)
(* One Life made by NewLife, then any sequence of Step and String, and of  *)
(* Alive and Next on either of its fields with the coordinates Next and    *)
(* String pass: one cell beyond the field at most.                         *)
(***************************************************************************)
QueryNew == \E d \in QueryDims : NewLifeCall(Main, d[1], d[2], 1)
LifeAlive ==
    \E l \in DOMAIN lives :
        \E f \in {lives[l].a, lives[l].b} :
            \E x \in (-1)..fields[f].width, y \in (-1)..fields[f].h :
                AliveCall(Main, f, x, y)
LifeNext ==
    \E l \in DOMAIN lives :
        \E f \in {lives[l].a, lives[l].b} :
            \E x \in 0..(fields[f].width - 1), y \in 0..(fields[f].h - 1) :
                NextCall(Main, f, x, y)

NextOfQuery ==
    QueryNew \/ LifePlace \/ LifeMade \/ NextOfMade \/ LifeAlive \/ LifeNext

SpecQuery == InitHeap /\ [][NextOfQuery]_vars

(***************************************************************************)
(* A small Life made by NewLife whose cells code of the package sets with  *)
(* Set on the current field before the first Step, then Step and String.   *)
(***************************************************************************)
SmallNew == \E d \in SmallDims : NewLifeCall(Main, d[1], d[2], 1)
SmallSet ==
    \E l \in DOMAIN lives :
        /\ hist[l].steps = 0
        /\ ret[Main].fn \in {"NewLife", "Set"}
        /\ \E x \in 0..(lives[l].width - 1), y \in 0..(lives[l].h - 1), b \in BOOLEAN :
               SetCall(Main, lives[l].a, x, y, b)

NextOfSmall == SmallNew \/ LifePlace \/ LifeMade \/ SmallSet \/ NextOfMade

SpecSmall == InitHeap /\ [][NextOfSmall]_vars

(***************************************************************************)
(* One Life used by two goroutines without a lock: main calls Step and the *)
(* other goroutine calls String, each whenever its own last call has       *)
(* returned.  One iteration of either loop is one step; the steps of the   *)
(* two calls interleave in every order.  The String frame records the      *)
(* cells of the current field at the call (pre) and whether the call has   *)
(* run without any part of a Step on the same Life beside it (clean).      *)
(***************************************************************************)
InStep(t, l) == frames[t].fn = "Step" /\ frames[t].grid = l
InString(t, l) == frames[t].fn = "String" /\ frames[t].grid = l

ConcStepCall(t, l) ==
    /\ frames[t] = Idle
    /\ hist[l].steps < MaxSteps
    /\ frames' = [u \in DOMAIN frames |->
                    IF u = t
                    THEN [fn |-> "Step", grid |-> l, x |-> 0, y |-> 0,
                          pre |-> fields[lives[l].a].s, writes |-> 0]
                    ELSE IF InString(u, l)
                    THEN [frames[u] EXCEPT !.clean = FALSE]
                    ELSE frames[u]]
    /\ ret' = [ret EXCEPT ![t] = NoRet]
    /\ UNCHANGED <<fields, lives, hist, out>>

ConcStringCall(t, l) ==
    /\ frames[t] = Idle
    /\ frames' = [frames EXCEPT ![t] =
                    [fn |-> "String", grid |-> l, x |-> 0, y |-> 0, buf |-> << >>,
                     pre |-> fields[lives[l].a].s,
                     clean |-> \A u \in Threads : ~InStep(u, l)]]
    /\ ret' = [ret EXCEPT ![t] = NoRet]
    /\ out' = [out EXCEPT ![l] = << >>]
    /\ UNCHANGED <<fields, lives, hist>>

ConcStringReturn(t) ==
    LET fr == frames[t]
        l == fr.grid
    IN
    /\ fr.fn = "String"
    /\ ~(fr.y < lives[l].h)
    /\ frames' = [frames EXCEPT ![t] = Idle]
    /\ ret' = [ret EXCEPT ![t] = [fn |-> "String", grid |-> l, val |-> fr.buf,
                                  pre |-> fr.pre, clean |-> fr.clean]]
    /\ out' = [out EXCEPT ![l] = fr.buf]
    /\ UNCHANGED <<fields, lives, hist>>

ConcNew == \E d \in ConcDims : NewLifeCall(Main, d[1], d[2], 1)
ConcStep == \E l \in DOMAIN lives : ConcStepCall(Main, l)
ConcString == \E l \in DOMAIN lives : ConcStringCall(Other, l)
ConcStringCell == StringCell(Other)
ConcStringDone == ConcStringReturn(Other)

NextOfConc ==
    \/ ConcNew \/ LifePlace \/ LifeMade
    \/ ConcStep \/ LifeStepCell \/ LifeStepSwap
    \/ ConcString \/ ConcStringCell \/ ConcStringDone

SpecConc == InitHeap /\ [][NextOfConc]_vars

(***************************************************************************)
(* main: NewLife, then 1000 times Step, Print, Sleep.  main's own frame is *)
(* frames[Driver]: pc is the statement it is at, grid and i its locals,    *)
(* printed the number of Print calls done, and gen, cells and text the     *)
(* generation number, the current field's cells and the bytes written at   *)
(* the last Print.  The frame of the function main has called is           *)
(* frames[Main], and its result, ret[Main], is what main goes on from.     *)
(***************************************************************************)
Driver == "main()"
FormFeed == "\f"

InitMain ==
    /\ fields = << >>
    /\ lives = << >>
    /\ frames = [t \in Threads \cup {Driver} |->
                   IF t = Driver
                   THEN [fn |-> "main", pc |-> "new", grid |-> 0, i |-> 0,
                         printed |-> 0, gen |-> 0, cells |-> << >>, text |-> << >>]
                   ELSE Idle]
    /\ ret = [t \in Threads |-> NoRet]
    /\ hist = << >>
    /\ out = << >>

At(pc) == frames[Driver].pc = pc
Goto(fr) ==
    /\ Quiet
    /\ frames' = [frames EXCEPT ![Driver] = fr]
    /\ UNCHANGED <<fields, lives, ret, hist, out>>

\* grid := NewLife(40, 15): the call, and the assignment of its result.
MainNew ==
    /\ At("new") /\ ret[Main] = NoRet
    /\ \E d \in MainDims : NewLifeCall(Main, d[1], d[2], 1)
MainGrid ==
    /\ At("new") /\ ret[Main].fn = "NewLife"
    /\ Goto([frames[Driver] EXCEPT !.grid = ret[Main].grid, !.i = 0, !.pc = "test"])

\* The loop condition with <= for <.
MainMoreInclusive(i) == i <= Iterations

\* i < 1000
MainMore(i) == i < Iterations

\* The test of the loop: into the body, or out of the loop and of main.
MainTest ==
    /\ At("test")
    /\ Goto([frames[Driver] EXCEPT
               !.pc = IF MainMore(frames[Driver].i) THEN "step" ELSE "done"])

\* grid.Step(): the call, and the return to main.
MainStepCall(t, l) ==
    /\ Quiet
    /\ frames' = [frames EXCEPT ![t] =
                    [fn |-> "Step", grid |-> l, x |-> 0, y |-> 0,
                     pre |-> fields[lives[l].a].s, writes |-> 0]]
    /\ ret' = [ret EXCEPT ![t] = NoRet]
    /\ UNCHANGED <<fields, lives, hist, out>>
MainStep ==
    /\ At("step") /\ ret[Main].fn # "Step"
    /\ MainStepCall(Main, frames[Driver].grid)
MainStepped ==
    /\ At("step") /\ ret[Main].fn = "Step"
    /\ Goto([frames[Driver] EXCEPT !.pc = "print"])

\* fmt.Print("\x0c", grid): Print calls grid.String() and writes the form
\* feed and the text.
MainString ==
    /\ At("print") /\ ret[Main].fn = "Step"
    /\ StringCall(Main, frames[Driver].grid)
MainPrint ==
    /\ At("print") /\ ret[Main].fn = "String"
    /\ Goto([frames[Driver] EXCEPT
               !.printed = @ + 1,
               !.gen = hist[frames[Driver].grid].steps,
               !.cells = fields[lives[frames[Driver].grid].a].s,
               !.text = <<FormFeed>> \o ret[Main].val,
               !.pc = "sleep"])

\* time.Sleep(time.Second / 5), then i++.
MainSleep ==
    /\ At("sleep")
    /\ Goto([frames[Driver] EXCEPT !.i = @ + 1, !.pc = "test"])

NextOfMain ==
    \/ MainNew \/ LifePlace \/ LifeMade \/ MainGrid
    \/ MainTest
    \/ MainStep \/ LifeStepCell \/ LifeStepSwap \/ MainStepped
    \/ MainString \/ LifeStringCell \/ LifeStringReturn \/ MainPrint
    \/ MainSleep

\* main is the only goroutine: its next statement is executed, and Sleep
\* returns.
SpecMain == InitMain /\ [][NextOfMain]_vars /\ WF_vars(NextOfMain)

(***************************************************************************)
(* Two Lives made by NewLife, then any sequence of Step and String on      *)
(* either.                                                                 *)
(***************************************************************************)
PairNew == \E d \in PairDims : NewLifeCall(Main, d[1], d[2], 2)

NextOfPair == PairNew \/ LifePlace \/ LifeMade \/ NextOfMade

SpecPair == InitHeap /\ [][NextOfPair]_vars

(***************************************************************************)
(* A Life as NewLife(width, h) returns it when its draws were exactly the  *)
(* cells of a given non-empty set of at most width*h/4 cells.              *)
(***************************************************************************)
Made(width, h, cells) ==
    /\ fields = << [NewField(width, h) EXCEPT
                      !.s = [y \in 0..(h-1) |-> [x \in 0..(width-1) |-> <<x, y>> \in cells]]],
                   NewField(width, h) >>
    /\ lives = << [a |-> 1, b |-> 2, width |-> width, h |-> h] >>
    /\ frames = [t \in Threads |-> Idle]
    /\ ret = [t \in Threads |->
                IF t = Main
                THEN [fn |-> "NewLife", grid |-> 1, width |-> width, h |-> h,
                      placed |-> (width * h) \div 4, draws |-> cells]
                ELSE NoRet]
    /\ hist = << [steps |-> 0, width |-> width, h |-> h, a |-> 1, b |-> 2] >>
    /\ out = << << >> >>

\* The 2x2 block whose first cell is (x, y), wrapped at the edges.
Block(width, h, x, y) ==
    {<<x, y>>, <<(x + 1) % width, y>>, <<x, (y + 1) % h>>, <<(x + 1) % width, (y + 1) % h>>}

InitBlock ==
    \E d \in BlockDims :
        \E x \in 0..(d[1] - 1), y \in 0..(d[2] - 1) :
            Made(d[1], d[2], Block(d[1], d[2], x, y))

SpecBlock == InitBlock /\ [][NextOfMade]_vars

\* The horizontal and the vertical blinker around (2, 2).
BlinkerH == {<<1, 2>>, <<2, 2>>, <<3, 2>>}
BlinkerV == {<<2, 1>>, <<2, 2>>, <<2, 3>>}

InitBlinker == \E d \in BlinkerDims : Made(d[1], d[2], BlinkerH)

SpecBlinker == InitBlinker /\ [][NextOfMade]_vars

(***************************************************************************)
(* Properties of Field                                                     *)
(***************************************************************************)
\* The 8 neighbour offsets and the number of them whose wrapped cell is alive.
Offsets == ({-1, 0, 1} \X {-1, 0, 1}) \ {<<0, 0>>}
WrappedAlive(f, x, y) == f.s[y % f.h][x % f.width]
LiveOffsets(f, x, y) ==
    Cardinality({o \in Offsets : WrappedAlive(f, x + o[1], y + o[2])})

\* C1: Next(x,y) on an in-range cell returns alive iff the number of alive
\* cells among the 8 wrapped neighbour offsets is 3, or is 2 and the cell is
\* alive itself; every other count gives dead whatever the cell's state.
C1_NextRule ==
    \A t \in Threads :
        ret[t].fn = "Next" =>
            LET f == fields[ret[t].f]
                n == LiveOffsets(f, ret[t].x, ret[t].y)
            IN  /\ ~ret[t].panic
                /\ ret[t].val = (n = 3 \/ (n = 2 /\ f.s[ret[t].y][ret[t].x]))
                /\ (n \in {0, 1} \cup (4..8)) => ~ret[t].val

\* Next has kept an alive cell with two live neighbour offsets alive.
C1_Witness ==
    \E t \in Threads :
        /\ ret[t].fn = "Next"
        /\ fields[ret[t].f].width = 3 /\ fields[ret[t].f].h = 3
        /\ LiveOffsets(fields[ret[t].f], ret[t].x, ret[t].y) = 2
        /\ fields[ret[t].f].s[ret[t].y][ret[t].x]
        /\ ret[t].val

\* C3 as claimed: Alive returns the cell (x mod width, y mod height) for
\* every integer x and y, without failing.
C3_AliveTotal ==
    \A t \in Threads :
        ret[t].fn = "Alive" =>
            /\ ~ret[t].panic
            /\ ret[t].val = WrappedAlive(fields[ret[t].f], ret[t].x, ret[t].y)

\* C4: Alive(-1,y) = Alive(W-1,y) and Alive(W,y) = Alive(0,y) for in-range
\* y; Alive(x,-1) = Alive(x,H-1) and Alive(x,H) = Alive(x,0) for in-range x.
C4_WrapEdges ==
    \A t \in Threads :
        ret[t].fn = "Alive" =>
            LET f == fields[ret[t].f]
                x == ret[t].x
                y == ret[t].y
                r == [panic |-> ret[t].panic, val |-> ret[t].val]
            IN  /\ (y \in 0..(f.h - 1) /\ x = -1) => (~r.panic /\ r = Alive(f, f.width - 1, y))
                /\ (y \in 0..(f.h - 1) /\ x = f.width) => (~r.panic /\ r = Alive(f, 0, y))
                /\ (x \in 0..(f.width - 1) /\ y = -1) => (~r.panic /\ r = Alive(f, x, f.h - 1))
                /\ (x \in 0..(f.width - 1) /\ y = f.h) => (~r.panic /\ r = Alive(f, x, 0))

\* Alive(-1,y) has returned alive on a field whose column 0 is dead at y.
C4_Witness ==
    \E t \in Threads :
        /\ ret[t].fn = "Alive"
        /\ ret[t].x = -1 /\ ret[t].y \in 0..(fields[ret[t].f].h - 1)
        /\ fields[ret[t].f].width = 3
        /\ ret[t].val
        /\ ~fields[ret[t].f].s[ret[t].y][0]

(***************************************************************************)
(* Properties of Life                                                      *)
(***************************************************************************)
\* The current and the scratch field of Life l, and the alive cells of a field.
Cur(l) == fields[lives[l].a]
Scratch(l) == fields[lives[l].b]
Cells(width, h) == (0..(width - 1)) \X (0..(h - 1))
AliveCells(f) == {c \in Cells(f.width, f.h) : f.s[c[2]][c[1]]}

\* C2: after Step every cell of the new current grid equals Next(x,y)
\* evaluated on the complete grid that was current when Step was called.
C2_StepSynchronous ==
    \A t \in Threads :
        ret[t].fn = "Step" =>
            LET g == lives[ret[t].grid]
                old == [s |-> ret[t].pre, width |-> g.width, h |-> g.h]
            IN  \A c \in Cells(g.width, g.h) :
                    Value(Cur(ret[t].grid).s[c[2]][c[1]]) = Next(old, c[1], c[2])

\* A second Step, made over a scratch grid that held alive cells, has
\* produced a generation with alive cells that differs from the one before.
C2_Witness ==
    \E t \in Threads :
        /\ ret[t].fn = "Step"
        /\ hist[ret[t].grid].steps = 2
        /\ AliveCells(Cur(ret[t].grid)) # {}
        /\ Cur(ret[t].grid).s # ret[t].pre
        /\ AliveCells(Scratch(ret[t].grid)) # {}

\* C5: a 2x2 block alone in a grid of at least 4x4 is left unchanged by
\* Step, at any position and after any number of Steps: the alive cells of
\* the current grid are a block and no step of the program changes them.
C5_BlockStill ==
    [][\A l \in DOMAIN lives :
          /\ \E c \in Cells(lives[l].width, lives[l].h) :
                 AliveCells(Cur(l)) = Block(lives[l].width, lives[l].h, c[1], c[2])
          /\ AliveCells(fields'[lives'[l].a]) = AliveCells(Cur(l))]_vars

\* Two Steps have been completed on a block that lies across both edges.
C5_Witness ==
    \E t \in Threads :
        /\ ret[t].fn = "Step"
        /\ hist[ret[t].grid].steps = 2
        /\ LET g == lives[ret[t].grid]
           IN  AliveCells(Cur(ret[t].grid)) =
                   Block(g.width, g.h, g.width - 1, g.h - 1)

\* C6: the blinker (1,2),(2,2),(3,2) in a grid of at least 5x5 is
\* (2,1),(2,2),(2,3) after one Step and (1,2),(2,2),(3,2) again after two:
\* after an even number of Steps it is horizontal, after an odd number vertical.
C6_BlinkerPeriod ==
    \A l \in DOMAIN lives :
        AliveCells(Cur(l)) = IF hist[l].steps % 2 = 0 THEN BlinkerH ELSE BlinkerV

\* Two Steps have been completed and the blinker is horizontal again.
C6_Witness ==
    \E t \in Threads :
        /\ ret[t].fn = "Step"
        /\ hist[ret[t].grid].steps = 2
        /\ AliveCells(Cur(ret[t].grid)) = BlinkerH
        /\ AliveCells(Scratch(ret[t].grid)) = BlinkerV

\* C7: String returns height lines of width characters, each followed by a
\* line terminator; the character of line y, column x is '*' if cell (x,y)
\* of the current grid is alive and ' ' otherwise.
C7_StringLayout ==
    \A t \in Threads :
        ret[t].fn = "String" =>
            LET g == lives[ret[t].grid]
                text == ret[t].val
                line(y) == y * (g.width + 1)
            IN  /\ Len(text) = g.h * (g.width + 1)
                /\ \A y \in 0..(g.h - 1) :
                       /\ \A x \in 0..(g.width - 1) :
                              text[line(y) + x + 1] =
                                  IF Cur(ret[t].grid).s[y][x] THEN "*" ELSE " "
                       /\ text[line(y) + g.width + 1] = "\n"

\* String has rendered a grid of several rows and columns, after a Step,
\* that holds alive and dead cells.
C7_Witness ==
    \E t \in Threads :
        /\ ret[t].fn = "String"
        /\ hist[ret[t].grid].steps >= 1
        /\ lives[ret[t].grid].width >= 3 /\ lives[ret[t].grid].h >= 2
        /\ AliveCells(Cur(ret[t].grid)) # {}
        /\ AliveCells(Cur(ret[t].grid)) # Cells(lives[ret[t].grid].width, lives[ret[t].grid].h)

\* C8: two Lives of the same dimensions whose current grids hold the same
\* cells have returned the same text from String, whatever their scratch
\* grids hold and however many Steps each has taken.
C8_RenderDeterminism ==
    \A l1 \in DOMAIN lives, l2 \in DOMAIN lives :
        (/\ out[l1] # << >> /\ out[l2] # << >>
         /\ lives[l1].width = lives[l2].width /\ lives[l1].h = lives[l2].h
         /\ Cur(l1).s = Cur(l2).s)
        => out[l1] = out[l2]

\* Both Lives have been rendered with equal current grids, different
\* scratch grids and different numbers of Steps.
C8_Witness ==
    \E l1 \in DOMAIN lives, l2 \in DOMAIN lives :
        /\ l1 # l2
        /\ out[l1] # << >> /\ out[l2] # << >>
        /\ lives[l1].width = lives[l2].width /\ lives[l1].h = lives[l2].h
        /\ Cur(l1).s = Cur(l2).s
        /\ Scratch(l1).s # Scratch(l2).s
        /\ hist[l1].steps # hist[l2].steps

\* The shape NewField gives a field: h rows of width cells, all boolean.
Shaped(f, width, h) ==
    /\ f.width = width /\ f.h = h
    /\ DOMAIN f.s = 0..(h - 1)
    /\ \A y \in DOMAIN f.s :
           /\ DOMAIN f.s[y] = 0..(width - 1)
           /\ \A x \in DOMAIN f.s[y] : f.s[y][x] \in BOOLEAN

\* floor(n / 4) without the division.
Quarter(n) == CHOOSE k \in 0..n : 4 * k <= n /\ n < 4 * (k + 1)

\* C9: after NewLife(width, height) both grids are width x height, the
\* scratch grid is all dead, exactly floor(width*height/4) placements were
\* made, each in range, and the current grid has at most that many alive
\* cells, at least 1 if that number is at least 1 and 0 if width*height < 4.
C9_NewLifeSeeded ==
    \A t \in Threads :
        ret[t].fn = "NewLife" =>
            LET l == ret[t].grid
                width == ret[t].width
                h == ret[t].h
                n == Quarter(width * h)
                alive == Cardinality(AliveCells(Cur(l)))
            IN  /\ lives[l].width = width /\ lives[l].h = h
                /\ Shaped(Cur(l), width, h)
                /\ Shaped(Scratch(l), width, h)
                /\ AliveCells(Scratch(l)) = {}
                /\ ret[t].placed = n
                /\ ret[t].draws \subseteq Cells(width, h)
                /\ AliveCells(Cur(l)) = ret[t].draws
                /\ alive <= n
                /\ n >= 1 => alive >= 1
                /\ width * h < 4 => alive = 0

\* NewLife(4, 4) has returned a grid with 2 alive cells after 4 placements.
C9_Witness ==
    \E t \in Threads :
        /\ ret[t].fn = "NewLife"
        /\ ret[t].width = 4 /\ ret[t].h = 4
        /\ ret[t].placed = 4
        /\ Cardinality(AliveCells(Cur(ret[t].grid))) = 2

\* C10: at any point of any sequence of Step and String calls, a and b are
\* two distinct grids, the two the Life was created with, each of the
\* width and height the Life was created with and with a boolean in every
\* cell; one is the current grid and the other the scratch grid.
C10_TwoGrids ==
    \A l \in DOMAIN lives :
        /\ lives[l].a # lives[l].b
        /\ {lives[l].a, lives[l].b} = {hist[l].a, hist[l].b}
        /\ {lives[l].a, lives[l].b} \subseteq DOMAIN fields
        /\ lives[l].width = hist[l].width /\ lives[l].h = hist[l].h
        /\ Shaped(Cur(l), hist[l].width, hist[l].h)
        /\ Shaped(Scratch(l), hist[l].width, hist[l].h)

\* String has returned after two Steps, the fields back in their first roles.
C10_Witness ==
    \E t \in Threads :
        /\ ret[t].fn = "String"
        /\ hist[ret[t].grid].steps = 2
        /\ lives[ret[t].grid].a = hist[ret[t].grid].a
        /\ AliveCells(Cur(ret[t].grid)) # {}

\* C11: a step that completes a Step exchanges the roles of the two fields
\* of the Life and copies no cell: a becomes the old b, b the old a, and
\* every field keeps its cells.  So the field created as current is current
\* after an even number of Steps and scratch after an odd number.
C11_RolesAlternate ==
    [][\A l \in DOMAIN lives' :
          /\ (l \in DOMAIN lives /\ hist'[l].steps # hist[l].steps) =>
                 /\ lives'[l].a = lives[l].b
                 /\ lives'[l].b = lives[l].a
                 /\ fields' = fields
          /\ lives'[l].a = IF hist'[l].steps % 2 = 0 THEN hist'[l].a ELSE hist'[l].b
          /\ lives'[l].b = IF hist'[l].steps % 2 = 0 THEN hist'[l].b ELSE hist'[l].a]_vars

\* A third Step has completed on a grid with alive cells: the field created
\* as scratch is the current one.
C11_Witness ==
    \E t \in Threads :
        /\ ret[t].fn = "Step"
        /\ hist[ret[t].grid].steps = 3
        /\ lives[ret[t].grid].a = hist[ret[t].grid].b
        /\ lives[ret[t].grid].b = hist[ret[t].grid].a
        /\ AliveCells(Cur(ret[t].grid)) # {}

\* C12: a Step that has been called never fails and always completes: the
\* n-th write of its sweep is at cell (n mod width, n div width), so every
\* cell of the scratch grid is written exactly once, width*height writes in
\* all, and then the fields are swapped and Step returns, after which no
\* call is running and Step can be called again.
C12_StepCompletes ==
    /\ [](\A t \in Threads : frames[t] # Crashed)
    /\ [](\A t \in Threads :
            frames[t].fn = "Step" =>
                /\ frames[t].writes = frames[t].y * lives[frames[t].grid].width + frames[t].x
                /\ frames[t].writes <= lives[frames[t].grid].width * lives[frames[t].grid].h
                /\ ENABLED (StepCell(t) \/ StepSwap(t)))
    /\ [](\A t \in Threads :
            ret[t].fn = "Step" =>
                /\ ret[t].writes = lives[ret[t].grid].width * lives[ret[t].grid].h
                /\ Quiet)
    /\ \A t \in Threads : (frames[t].fn = "Step") ~> (ret[t].fn = "Step")

\* The third Step on a 3x3 grid has returned after 9 writes.
C12_Witness ==
    \E t \in Threads :
        /\ ret[t].fn = "Step"
        /\ hist[ret[t].grid].steps = 3
        /\ lives[ret[t].grid].width = 3 /\ lives[ret[t].grid].h = 3
        /\ ret[t].writes = 9

\* A step of goroutine t that belongs to a call of String, or that is a
\* call of Alive or Next.
QueryStep(t) ==
    \/ frames[t].fn = "String"
    \/ frames'[t].fn = "String"
    \/ ret'[t].fn \in {"Alive", "Next"} /\ ret'[t] # ret[t]

\* C13: Alive, Next and String are pure queries: no step of any of them,
\* in any order and any number of times, changes a cell or the dimensions
\* of a field, or which field is current and which is scratch.
C13_QueriesPure ==
    [][\A t \in Threads : QueryStep(t) => (fields' = fields /\ lives' = lives)]_vars

\* Alive has returned alive on a field of a Life that was rendered by
\* String after a Step.
C13_Witness ==
    \E t \in Threads :
        /\ ret[t].fn = "Alive"
        /\ ret[t].val
        /\ \E l \in DOMAIN lives :
               /\ hist[l].steps >= 1
               /\ out[l] # << >>
               /\ ret[t].f \in {lives[l].a, lives[l].b}

\* C14: no write of the program fails or wraps.  No goroutine panics; a
\* step of NewLife's loop changes nothing but one in-range cell of the new
\* field, to alive; a step of Step's sweep is at in-range loop variables
\* (x, y) and changes nothing but cell (x, y) of the scratch field; and no
\* other step changes a cell.
C14_WritesInRange ==
    [][/\ \A t \in Threads : frames'[t] # Crashed
       /\ \A t \in Threads :
            /\ (frames[t].fn = "NewLife" /\ frames'[t].fn = "NewLife") =>
                   \E c \in Cells(frames[t].width, frames[t].h) :
                       fields' = [fields EXCEPT ![frames[t].a].s[c[2]][c[1]] = TRUE]
            /\ (frames[t].fn = "Step" /\ frames'[t].fn = "Step") =>
                   LET g == lives[frames[t].grid]
                       x == frames[t].x
                       y == frames[t].y
                   IN  /\ x \in 0..(g.width - 1) /\ y \in 0..(g.h - 1)
                       /\ \E b \in BOOLEAN :
                              fields' = [fields EXCEPT ![g.b].s[y][x] = b]
       /\ (\A t \in Threads : frames[t].fn \notin {"NewLife", "Step"}) =>
              \A f \in DOMAIN fields : fields'[f] = fields[f]]_vars

\* The sweep of a Step on a 4x4 grid has made its 16 writes, the last at
\* (3, 3), and has written alive cells.
C14_Witness ==
    \E t \in Threads :
        /\ frames[t].fn = "Step"
        /\ frames[t].writes = 16
        /\ lives[frames[t].grid].width = 4 /\ lives[frames[t].grid].h = 4
        /\ Scratch(frames[t].grid).s[3][3]

\* The text of a grid of the given cells: per row, one glyph per cell and a
\* line terminator.
RenderOf(s, width, h) ==
    [k \in 1..(h * (width + 1)) |->
        LET y == (k - 1) \div (width + 1)
            x == (k - 1) % (width + 1)
        IN  IF x = width THEN "\n" ELSE IF s[y][x] THEN "*" ELSE " "]

\* C15: a String call beside which no part of a Step has run returns the
\* rendering of one complete generation, the one current at the call.  (A
\* String call interleaved with a Step can return a text that is neither
\* the generation before the Step nor the one after it: C15_Witness.)
C15_SerializedWhole ==
    \A t \in Threads :
        (ret[t].fn = "String" /\ ret[t].clean) =>
            LET g == lives[ret[t].grid]
            IN  ret[t].val = RenderOf(ret[t].pre, g.width, g.h)

\* String has returned, one Step has run beside it and has returned too,
\* and the text is neither the rendering of the generation before that Step
\* (now in the scratch field) nor of the generation after it.
C15_Witness ==
    \E t \in Threads, u \in Threads :
        /\ ret[t].fn = "String" /\ ~ret[t].clean
        /\ ret[u].fn = "Step" /\ ret[u].grid = ret[t].grid
        /\ Quiet
        /\ hist[ret[t].grid].steps = 1
        /\ LET l == ret[t].grid
               g == lives[l]
           IN  /\ Scratch(l).s = ret[u].pre
               /\ ret[t].val # RenderOf(Scratch(l).s, g.width, g.h)
               /\ ret[t].val # RenderOf(Cur(l).s, g.width, g.h)

\* C16: while Step sweeps, the field it reads is another field than the one
\* it writes and keeps the cells it had when Step was called; when Step has
\* returned, the scratch field holds exactly those cells, the generation
\* before the Step.
C16_ScratchIsPrevious ==
    \A t \in Threads :
        /\ frames[t].fn = "Step" =>
               /\ lives[frames[t].grid].a # lives[frames[t].grid].b
               /\ Cur(frames[t].grid).s = frames[t].pre
        /\ ret[t].fn = "Step" =>
               /\ lives[ret[t].grid].a # lives[ret[t].grid].b
               /\ Scratch(ret[t].grid).s = ret[t].pre

\* The second Step has returned; the generation before it, now in the
\* scratch field, had live cells and differs from the new generation.
C16_Witness ==
    \E t \in Threads :
        /\ ret[t].fn = "Step"
        /\ hist[ret[t].grid].steps = 2
        /\ ret[t].writes = lives[ret[t].grid].width * lives[ret[t].grid].h
        /\ AliveCells(Scratch(ret[t].grid)) # {}
        /\ Scratch(ret[t].grid).s = ret[t].pre
        /\ Cur(ret[t].grid).s # Scratch(ret[t].grid).s

\* C17: the all-dead generation is absorbing: a Life whose current field has
\* no live cell has none after any step of the program, whatever the scratch
\* field holds when Step starts.
C17_DeadStaysDead ==
    [][\A l \in DOMAIN lives :
          AliveCells(Cur(l)) = {} => AliveCells(fields'[lives'[l].a]) = {}]_vars

\* Step sweeps an all-dead generation and has written every cell but the
\* last; the last cell of the scratch field is still live from the
\* generation before.
C17_Witness ==
    \E t \in Threads :
        /\ frames[t].fn = "Step"
        /\ LET l == frames[t].grid
               g == lives[l]
           IN  /\ hist[l].steps >= 1
               /\ frames[t].writes = g.width * g.h - 1
               /\ AliveCells(Cur(l)) = {}
               /\ AliveCells(Scratch(l)) = {<<g.width - 1, g.h - 1>>}
               /\ ENABLED StepCell(t)

\* The cells that the 8 offsets around (x, y) wrap to.
WrappedCells(width, h, x, y) ==
    {<<(x + o[1]) % width, (y + o[2]) % h>> : o \in Offsets}

\* C18: Next counts one neighbour per offset, not per distinct cell.  For the
\* generation a returned Step started from: every cell's count is the number
\* of offsets that wrap to a live cell; on a grid narrower or lower than 3
\* the offsets wrap to fewer than 8 cells, and on a 1-wide or 1-high grid one
\* of them is the cell itself; on 1x1 a live cell has count 8 and the grid is
\* all dead after the Step, and so is every 1x1 grid; a 2x2 grid of 4 live
\* cells is all dead after the Step.
C18_CountPerOffset ==
    \A t \in Threads :
        ret[t].fn = "Step" =>
            LET l == ret[t].grid
                g == lives[l]
                old == [s |-> ret[t].pre, width |-> g.width, h |-> g.h]
            IN  /\ \A c \in Cells(g.width, g.h) :
                     LET n == NextCount(old, c[1], c[2], -1, -1, 0)
                         around == WrappedCells(g.width, g.h, c[1], c[2])
                     IN  /\ n = [panic |-> FALSE, val |-> LiveOffsets(old, c[1], c[2])]
                         /\ (g.width < 3 \/ g.h < 3) => Cardinality(around) < 8
                         /\ (g.width = 1 \/ g.h = 1) => c \in around
                         /\ (AliveCells(old) = Cells(g.width, g.h)) => n.val = 8
                /\ (g.width = 1 /\ g.h = 1) =>
                     /\ old.s[0][0] => NextCount(old, 0, 0, -1, -1, 0).val = 8
                     /\ AliveCells(Cur(l)) = {}
                /\ (g.width = 2 /\ g.h = 2 /\ AliveCells(old) = Cells(2, 2)) =>
                     AliveCells(Cur(l)) = {}

\* The first Step of a 2x2 Life with all 4 cells alive has returned.
C18_Witness ==
    \E t \in Threads :
        /\ ret[t].fn = "Step"
        /\ hist[ret[t].grid].steps = 1
        /\ lives[ret[t].grid].width = 2 /\ lives[ret[t].grid].h = 2
        /\ \A x \in 0..1, y \in 0..1 : ret[t].pre[y][x]
        /\ AliveCells(Cur(ret[t].grid)) = {}

\* The first Step of a 1x1 Life whose cell was alive has returned.
C18_WitnessOne ==
    \E t \in Threads :
        /\ ret[t].fn = "Step"
        /\ hist[ret[t].grid].steps = 1
        /\ lives[ret[t].grid].width = 1 /\ lives[ret[t].grid].h = 1
        /\ ret[t].pre[0][0]
        /\ ~Cur(ret[t].grid).s[0][0]

\* What main has done so far is what its loop prescribes at statement pc with
\* i iterations complete.
MainInOrder ==
    LET d == frames[Driver]
        l == d.grid
    IN
    /\ frames[Main] # Crashed
    /\ d.i \in 0..Iterations
    /\ d.pc \in {"step", "print", "sleep"} => d.i < Iterations
    /\ d.pc = "new" => d.printed = 0
    /\ d.pc # "new" =>
         /\ d.printed = IF d.pc = "sleep" THEN d.i + 1 ELSE d.i
         /\ hist[l].steps =
               IF d.pc \in {"print", "sleep"} \/ (d.pc = "step" /\ ret[Main].fn = "Step")
               THEN d.i + 1 ELSE d.i
         /\ d.printed >= 1 =>
               /\ d.gen = d.printed
               /\ d.text = <<FormFeed>> \o RenderOf(d.cells, lives[l].width, lives[l].h)
               /\ d.pc \in {"sleep", "test", "done"} => d.cells = Cur(l).s
    /\ d.pc = "done" =>
         /\ d.i = Iterations /\ d.printed = Iterations
         /\ hist[l].steps = Iterations
         /\ Quiet

\* C19: main runs exactly 1000 iterations, each a Step followed by a Print of
\* the rendering of the new current grid, and then returns: the k-th Print
\* writes the complete generation k, so generation 0 is never printed.
C19_MainRuns ==
    /\ []MainInOrder
    /\ <>(frames[Driver].pc = "done")

\* main has left its loop after 1000 Prints, the last of generation 1000, of
\* a Life that NewLife seeded.
C19_Witness ==
    /\ frames[Driver].pc = "done"
    /\ frames[Driver].printed = Iterations
    /\ frames[Driver].gen = Iterations
    /\ hist[frames[Driver].grid].steps = Iterations
    /\ ret[Main].fn = "String"
    /\ frames[Driver].text = <<FormFeed>> \o ret[Main].val
    /\ Len(frames[Driver].text) =
          1 + lives[frames[Driver].grid].h * (lives[frames[Driver].grid].width + 1)
    /\ lives[frames[Driver].grid].width * lives[frames[Driver].grid].h = 4

====
